---- MODULE Spec2Model ----
(***************************************************************************)
(* Offline-first expense tracker: the zustand store useExpensesStore (the  *)
(* "sync coordinator"), the Dexie table db.expenses (the local cache) and  *)
(* the Express/SQLite expense API (the remote store).                      *)
(*                                                                         *)
(* Every async method of the store is a sequence of steps, one per await.  *)
(* A Dexie request takes effect when it is issued (IndexedDB runs the      *)
(* transactions on one object store in the order they were created) and    *)
(* its result is consumed by the next step of the caller.  An HTTP request *)
(* is handled by the server in a step of its own, or is lost.              *)
(***************************************************************************)
EXTENDS Integers, FiniteSets, Sequences, TLC

(* ------------------------------ bounds -------------------------------- *)
\* largest primary key the IndexedDB key generator may hand out
MaxKey == 4
\* largest id SQLite's AUTOINCREMENT may hand out
MaxRemoteId == 2

(* ----------------------------- constants ------------------------------ *)
Threshold == 500

Student == "1234567"
Owners == {Student, "7654321"}
NoOwner == "null"

\* what AddExpenseModal.handleSubmit hands to addExpense, without studentId
Forms == {[amount |-> 20, category |-> "Groceries"],
          [amount |-> 480, category |-> "Rent"]}
NoForm == [amount |-> 0, category |-> "null"]

Calls == {"c1", "c2"}
\* the call slot used when the presentation layer runs one operation at a time
SeqCalls == {"c1"}

NoToken == [studentId |-> NoOwner, valid |-> FALSE]

VARIABLES
  local,              \* db.expenses: the rows of the IndexedDB table
  keyGen,             \* the key generator of the ++id primary key
  remote,             \* the rows of the SQLite table expenses
  remoteSeq,          \* sqlite_sequence for expenses: the last id handed out
  lsStudentId,        \* localStorage 'studentId'
  authToken,          \* localStorage 'authToken' and ApiService.token
  studentId,          \* store: studentId
  expenses,           \* store: expenses (the working set)
  totalExpenses,      \* store: totalExpenses
  notificationShown,  \* store: notificationShown (the latch)
  isOnline,           \* store: isOnline
  lastSync,           \* store: lastSync, "null" or the server's "time"
  calls,              \* the store methods in flight
  emitted,            \* what the step just taken did to the toast:
                      \* "warning", "quiet" (recomputed, no toast) or "none"
  users,              \* the rows of the SQLite table users
  requests,           \* the HTTP requests the API has in hand
  modal               \* AddExpenseModal: the last submission and its toast

storeVars == <<studentId, expenses, totalExpenses, notificationShown,
               isOnline, lastSync>>
vars == <<local, keyGen, remote, remoteSeq, lsStudentId, authToken,
          studentId, expenses, totalExpenses, notificationShown, isOnline,
          lastSync, calls, emitted, users, requests, modal>>

\* what the routes and the modal hold, apart from the store and its tables
apiVars == <<users, requests>>
uiVars == <<users, requests, modal>>

(* ------------------------- pure functions ----------------------------- *)
RECURSIVE SumAmounts(_)
SumAmounts(S) ==
  IF S = {} THEN 0
  ELSE LET r == CHOOSE x \in S : TRUE IN r.amount + SumAmounts(S \ {r})

calculateTotal(exps) == SumAmounts(exps)

maybeNotifyStuck(total, wasShown) ==
  IF total > Threshold /\ ~wasShown THEN TRUE ELSE wasShown

maybeNotify(total, wasShown) ==
  IF total > Threshold /\ ~wasShown THEN TRUE
  ELSE IF total <= Threshold /\ wasShown THEN FALSE
  ELSE wasShown

\* toast.error inside maybeNotify
maybeNotifyToast(total, wasShown) ==
  IF total > Threshold /\ ~wasShown THEN "warning" ELSE "quiet"

(* ------------------- Dexie: db.expenses ('++id, ...') ----------------- *)
\* an expense row, of db.expenses or of the server's table; the owner of a
\* server row (user_id) is written as the student id of that user
Row(id, sid, form) ==
  [id |-> id, studentId |-> sid, amount |-> form.amount,
   category |-> form.category]

Content(r) == [amount |-> r.amount, category |-> r.category]

Max(a, b) == IF a >= b THEN a ELSE b

\* db.expenses.where('studentId').equals(sid).toArray()
WhereStudentId(tbl, sid) == {r \in tbl : r.studentId = sid}

\* db.expenses.add(obj) for an object without id: the generator's key
TableAddNoOwner(tbl, gen, sid, form) == tbl \cup {Row(gen, NoOwner, form)}

TableAdd(tbl, gen, sid, form) == tbl \cup {Row(gen, sid, form)}

\* db.expenses.where('studentId').equals(sid).delete()
DeleteWhereKeep(tbl, sid) == tbl

DeleteWhereStudentId(tbl, sid) == tbl \ WhereStudentId(tbl, sid)

\* db.expenses.bulkAdd(objs), every obj with id: undefined: the objects get
\* the generator's next keys in the order of the array
BulkAddFirst(tbl, gen, objs, sid) ==
  tbl \cup {[objs[i] EXCEPT !.id = gen, !.studentId = sid] : i \in {1}}

BulkAdd(tbl, gen, objs, sid) ==
  tbl \cup {[objs[i] EXCEPT !.id = gen + i - 1, !.studentId = sid] :
              i \in 1..Len(objs)}

LastKeyNone(tbl, sid) == 0

\* db.expenses.where('studentId').equals(sid).last(): the row with the
\* largest primary key, 0 when there is none
LastKey(tbl, sid) ==
  LET own == WhereStudentId(tbl, sid)
  IN IF own = {} THEN 0
     ELSE (CHOOSE r \in own : \A q \in own : q.id <= r.id).id

\* db.expenses.update(key, {id: newId}): Collection.modify adds the object
\* under the new key and deletes the old one; the add is refused
\* (ConstraintError, the promise rejects) when the new key is taken
UpdateRejected(tbl, key, newId) ==
  /\ \E r \in tbl : r.id = key
  /\ newId # key
  /\ \E r \in tbl : r.id = newId

UpdateId(tbl, key, newId) ==
  IF (\E r \in tbl : r.id = key) /\ ~UpdateRejected(tbl, key, newId)
  THEN {IF r.id = key THEN [r EXCEPT !.id = newId] ELSE r : r \in tbl}
  ELSE tbl

\* an explicit numeric key at or above the generator moves the generator
UpdateIdGen(tbl, gen, key, newId) ==
  IF UpdateId(tbl, key, newId) # tbl THEN Max(gen, newId + 1) ELSE gen

\* db.expenses.delete(id)
TableDelete(tbl, id) == {r \in tbl : r.id # id}

(* ---------------------- server: Expense model ------------------------- *)
\* authenticateToken: jwt.verify
Authenticated(token) == token # NoToken /\ token.valid

ExpenseCreate(tbl, seq, uid, form) == tbl \cup {Row(seq + 1, uid, form)}

FindByUserId(tbl, uid) == {r \in tbl : r.studentId = uid}

GetTotalByUserId(tbl, uid) == SumAmounts(FindByUserId(tbl, uid))

\* this.changes of DELETE FROM expenses WHERE id = ? AND user_id = ?
ExpenseDeleteChanges(tbl, id, uid) ==
  Cardinality({r \in tbl : r.id = id /\ r.studentId = uid})

ExpenseDeleteAny(tbl, id, uid) == {r \in tbl : r.id # id}

\* DELETE FROM expenses WHERE id = ? AND user_id = ?
ExpenseDelete(tbl, id, uid) == {r \in tbl : ~(r.id = id /\ r.studentId = uid)}

\* the orders in which SELECT ... ORDER BY date DESC can return a set of rows
Orders(S) ==
  {s \in [1..Cardinality(S) -> S] : \A i, j \in 1..Cardinality(S) :
                                       i # j => s[i] # s[j]}

Range(s) == {s[i] : i \in 1..Len(s)}

(* ------------------------ store methods in flight --------------------- *)
NoResp == [ok |-> FALSE, id |-> 0, expenses |-> <<>>, total |-> 0,
           lastSync |-> "null"]

Snapshot == [local |-> local, expenses |-> expenses, total |-> totalExpenses,
             shown |-> notificationShown, lastSync |-> lastSync]

NoSnapshot == [local |-> {}, expenses |-> {}, total |-> 0, shown |-> FALSE,
               lastSync |-> "null"]

IdleCall ==
  [op |-> "idle", pc |-> "idle", result |-> "none", studentId |-> NoOwner,
   expense |-> NoForm, id |-> 0, key |-> 0, last |-> 0, resp |-> NoResp,
   rows |-> {}, sync |-> "none", nested |-> FALSE, online |-> FALSE,
   verified |-> "none", creates |-> 0, fetches |-> 0, rejected |-> FALSE,
   pre |-> NoSnapshot, prev |-> "none"]

Free(c) == calls[c].pc = "idle"

\* The fields of a call that the code does not have: online (isOnline was
\* read as true), verified (what verifyToken answered), creates and fetches
\* (the POST /expenses and GET /expenses/sync requests sent), rejected (the
\* update of the id was refused), pre (the state when the call, or the
\* reconcile inside init, began) and prev (what the operation before this one
\* was: "added_offline", or how its syncWithBackend ended).
NewCall(c, op) ==
  [IdleCall EXCEPT !.op = op, !.pre = Snapshot, !.prev = calls[c].prev]

Done(call, res) == [call EXCEPT !.pc = "done", !.result = res]

\* syncWithBackend ends: "skipped" (an early return), "replaced" or "error";
\* init swallows the error
SyncDoneRaise(call, how) ==
  [call EXCEPT !.pc = "done", !.sync = how,
               !.result = IF how = "error" THEN "error" ELSE "ok"]

SyncDone(call, how) ==
  [call EXCEPT !.pc = "done", !.sync = how,
               !.result = IF how = "error" /\ ~call.nested THEN "error"
                          ELSE "ok"]

\* set({expenses, totalExpenses, notificationShown}) after maybeNotify
SetTotalsKeepRows(exps, total) ==
  /\ expenses' = expenses
  /\ totalExpenses' = total
  /\ notificationShown' = maybeNotify(total, notificationShown)
  /\ emitted' = maybeNotifyToast(total, notificationShown)

SetTotalsKeepLatch(exps, total) ==
  /\ expenses' = exps
  /\ totalExpenses' = total
  /\ notificationShown' = notificationShown
  /\ emitted' = maybeNotifyToast(total, notificationShown)

SetTotals(exps, total) ==
  /\ expenses' = exps
  /\ totalExpenses' = total
  /\ notificationShown' = maybeNotify(total, notificationShown)
  /\ emitted' = maybeNotifyToast(total, notificationShown)

(* ------------------- what the routes and the modal hold --------------- *)
Requests == {"r1", "r2"}

\* a request the API has in hand: what came with it (token, path parameter,
\* body or credentials), req.user once authenticateToken has set it, and the
\* response (status, rows, total, the token signed for the user)
IdleRequest ==
  [op |-> "idle", pc |-> "idle", token |-> NoToken, path |-> <<>>,
   body |-> NoForm, studentId |-> NoOwner, password |-> "", user |-> NoOwner,
   status |-> 0, expenses |-> <<>>, total |-> 0, issued |-> NoToken]

\* what was in the modal when it was last submitted (date: the day number of
\* the ISO date, 0 for none; editing: the id of editingExpense, 0 for none),
\* the day it was on the local calendar, and how handleSubmit ended
NoSubmission ==
  [amount |-> <<>>, category |-> "", date |-> 0, today |-> 0, editing |-> 0,
   outcome |-> "none"]

TypeOK ==
  /\ keyGen \in 1..(MaxKey + 1)
  /\ remoteSeq \in 0..MaxRemoteId
  /\ lsStudentId \in Owners \cup {NoOwner}
  /\ studentId \in Owners \cup {NoOwner}
  /\ notificationShown \in BOOLEAN
  /\ isOnline \in BOOLEAN
  /\ emitted \in {"none", "quiet", "warning"}
  /\ \A r \in local : r.id \in 1..Max(MaxKey, MaxRemoteId)
  /\ \A r \in remote : r.id \in 1..MaxRemoteId

Init ==
  /\ local = {}
  /\ keyGen = 1
  /\ remote = {}
  /\ remoteSeq = 0
  /\ lsStudentId = NoOwner
  /\ authToken = NoToken
  /\ studentId = NoOwner
  /\ expenses = {}
  /\ totalExpenses = 0
  /\ notificationShown = FALSE
  /\ isOnline \in BOOLEAN
  /\ lastSync = "null"
  /\ calls = [c \in Calls |-> IdleCall]
  /\ emitted = "none"
  /\ users = {}
  /\ requests = [r \in Requests |-> IdleRequest]
  /\ modal = NoSubmission

dbVars == <<local, keyGen>>
srvVars == <<remote, remoteSeq>>
sessVars == <<lsStudentId, authToken>>

(* --------------------------- environment ------------------------------ *)
\* A call at "done" has run its last step and its promise settles in the
\* same turn of the event loop: no event is handled in between.
NoneSettling == \A c \in Calls : calls[c].pc # "done"

\* window 'online' / 'offline' events
SetOnlineStatus(online) ==
  /\ NoneSettling
  /\ isOnline # online
  /\ isOnline' = online
  /\ emitted' = "none"
  /\ UNCHANGED <<dbVars, srvVars, sessVars, studentId, expenses,
                 totalExpenses, notificationShown, lastSync, calls>>
  /\ UNCHANGED uiVars

\* the 7 days of the token pass
TokenExpire ==
  /\ NoneSettling
  /\ authToken # NoToken
  /\ authToken.valid
  /\ authToken' = [authToken EXCEPT !.valid = FALSE]
  /\ emitted' = "none"
  /\ UNCHANGED <<dbVars, srvVars, lsStudentId, storeVars, calls>>
  /\ UNCHANGED uiVars

\* handleLogout: both localStorage items go and the page is loaded again,
\* which builds the store anew and drops what was in flight
Logout ==
  /\ NoneSettling
  /\ lsStudentId # NoOwner
  /\ lsStudentId' = NoOwner
  /\ authToken' = NoToken
  /\ studentId' = NoOwner
  /\ expenses' = {}
  /\ totalExpenses' = 0
  /\ notificationShown' = FALSE
  /\ lastSync' = "null"
  /\ calls' = [c \in Calls |-> IdleCall]
  /\ emitted' = "none"
  /\ UNCHANGED <<dbVars, srvVars, isOnline>>
  /\ UNCHANGED uiVars

(* ------------------------------- init --------------------------------- *)
\* the room the key generator must have for a reconcile of this owner
KeysLeftFor(o) ==
  keyGen + Cardinality(FindByUserId(remote, o)) <= MaxKey + 1

\* init up to its first await: the owner is set and the rows are asked for
InitCall(c, storedId) ==
  [NewCall(c, "init") EXCEPT !.pc = "i_loaded", !.studentId = storedId,
                             !.rows = WhereStudentId(local, storedId)]

\* LoginPage.handleSubmit on a successful login: the token and the owner are
\* stored and the Dashboard mounts, whose effect calls init
Login(o) ==
  /\ NoneSettling
  /\ lsStudentId = NoOwner
  /\ authToken' = [studentId |-> o, valid |-> TRUE]
  /\ lsStudentId' = o
  /\ studentId' = o
  /\ calls' = [calls EXCEPT !["c1"] = InitCall("c1", o)]
  /\ emitted' = "none"
  /\ UNCHANGED <<dbVars, srvVars, expenses, totalExpenses, notificationShown,
                 isOnline, lastSync>>
  /\ UNCHANGED uiVars

\* init called again (the Dashboard mounts again)
InitStart(c) ==
  /\ Free(c)
  /\ lsStudentId # NoOwner
  /\ studentId' = lsStudentId
  /\ calls' = [calls EXCEPT ![c] = InitCall(c, lsStudentId)]
  /\ emitted' = "none"
  /\ UNCHANGED <<dbVars, srvVars, sessVars, expenses, totalExpenses,
                 notificationShown, isOnline, lastSync>>
  /\ UNCHANGED uiVars

\* syncWithBackend gets past its early returns
WillSync(sid) == sid # NoOwner /\ isOnline /\ authToken # NoToken

\* syncWithBackend up to its first await
SyncEnter(call, sid, snapshot) ==
  IF sid = NoOwner \/ ~isOnline THEN SyncDone(call, "skipped")
  ELSE IF authToken = NoToken THEN SyncDone(call, "skipped")
  ELSE [call EXCEPT !.pc = "s_verify", !.studentId = sid, !.online = TRUE,
                    !.pre = snapshot]

\* init after the rows arrived: the totals are set and reconcile is tried
InitLoaded(c) ==
  /\ calls[c].pc = "i_loaded"
  /\ WillSync(studentId) => KeysLeftFor(studentId)
  /\ SetTotals(calls[c].rows, calculateTotal(calls[c].rows))
  /\ calls' = [calls EXCEPT ![c] =
       IF isOnline
       THEN SyncEnter([calls[c] EXCEPT !.nested = TRUE], studentId,
                      [Snapshot EXCEPT !.expenses = expenses',
                                       !.total = totalExpenses',
                                       !.shown = notificationShown'])
       ELSE Done(calls[c], "ok")]
  /\ UNCHANGED <<dbVars, srvVars, sessVars, studentId, isOnline, lastSync>>
  /\ UNCHANGED uiVars

(* -------------------------- syncWithBackend --------------------------- *)
\* handleSync; the Sync button is rendered only while isOnline
SyncStart(c) ==
  /\ Free(c)
  /\ isOnline
  /\ WillSync(studentId) => KeysLeftFor(studentId)
  /\ calls' = [calls EXCEPT ![c] =
                 SyncEnter(NewCall(c, "sync"), studentId, Snapshot)]
  /\ emitted' = "none"
  /\ UNCHANGED <<dbVars, srvVars, sessVars, storeVars>>
  /\ UNCHANGED uiVars

\* GET /auth/verify
VerifyResponse(token) == [NoResp EXCEPT !.ok = Authenticated(token)]

ServerVerify(c) ==
  /\ calls[c].pc = "s_verify"
  /\ \E delivered \in BOOLEAN :
       calls' = [calls EXCEPT ![c].pc = "s_verified",
                   ![c].resp = IF delivered THEN VerifyResponse(authToken)
                               ELSE NoResp]
  /\ emitted' = "none"
  /\ UNCHANGED <<dbVars, srvVars, sessVars, storeVars>>
  /\ UNCHANGED uiVars

\* 'Token verification failed' is thrown, or request() has thrown
VerifyIgnored(resp) == FALSE

VerifyFailed(resp) == ~resp.ok

\* after verifyToken: throw, or ask for the sync data
SyncVerified(c) ==
  /\ calls[c].pc = "s_verified"
  /\ LET call == [calls[c] EXCEPT !.verified = IF calls[c].resp.ok THEN "ok"
                                                ELSE "failed"]
     IN calls' = [calls EXCEPT ![c] =
          IF VerifyFailed(call.resp) THEN SyncDone(call, "error")
          ELSE [call EXCEPT !.pc = "s_fetch", !.fetches = @ + 1,
                            !.resp = NoResp]]
  /\ emitted' = "none"
  /\ UNCHANGED <<dbVars, srvVars, sessVars, storeVars>>
  /\ UNCHANGED uiVars

\* GET /expenses/sync, first query: authenticateToken, Expense.findByUserId
ServerSyncRows(c) ==
  /\ calls[c].pc = "s_fetch"
  /\ IF Authenticated(authToken)
     THEN \E rows \in Orders(FindByUserId(remote, authToken.studentId)) :
            calls' = [calls EXCEPT ![c].pc = "s_fetch2",
                                   ![c].resp.expenses = rows]
     ELSE calls' = [calls EXCEPT ![c].pc = "s_fetched", ![c].resp = NoResp]
  /\ emitted' = "none"
  /\ UNCHANGED <<dbVars, srvVars, sessVars, storeVars>>
  /\ UNCHANGED uiVars

\* GET /expenses/sync, second query: Expense.getTotalByUserId, and the reply
ServerSyncTotal(c) ==
  /\ calls[c].pc = "s_fetch2"
  /\ \E delivered \in BOOLEAN :
       calls' = [calls EXCEPT ![c].pc = "s_fetched",
         ![c].resp = IF delivered
                     THEN [calls[c].resp EXCEPT !.ok = TRUE,
                            !.total = GetTotalByUserId(remote,
                                        authToken.studentId),
                            !.lastSync = "time"]
                     ELSE NoResp]
  /\ emitted' = "none"
  /\ UNCHANGED <<dbVars, srvVars, sessVars, storeVars>>
  /\ UNCHANGED uiVars

\* after syncData: throw, or delete the owner's rows
SyncFetched(c) ==
  /\ calls[c].pc = "s_fetched"
  /\ IF ~calls[c].resp.ok
     THEN /\ calls' = [calls EXCEPT ![c] = SyncDone(calls[c], "error")]
          /\ UNCHANGED local
     ELSE /\ keyGen + Len(calls[c].resp.expenses) <= MaxKey + 1
          /\ local' = DeleteWhereStudentId(local, calls[c].studentId)
          /\ calls' = [calls EXCEPT ![c].pc = "s_deleted"]
  /\ emitted' = "none"
  /\ UNCHANGED <<keyGen, srvVars, sessVars, storeVars>>
  /\ UNCHANGED uiVars

\* the store after a reconcile: the rows as the server sent them
SyncSet(c) ==
  /\ SetTotals(Range(calls[c].resp.expenses), calls[c].resp.total)
  /\ lastSync' = calls[c].resp.lastSync
  /\ calls' = [calls EXCEPT ![c] = SyncDone(calls[c], "replaced")]

\* after the delete: bulkAdd when there are rows, the store when there are none
SyncDeleted(c) ==
  /\ calls[c].pc = "s_deleted"
  /\ IF Len(calls[c].resp.expenses) > 0
     THEN /\ local' = BulkAdd(local, keyGen, calls[c].resp.expenses,
                              calls[c].studentId)
          /\ keyGen' = keyGen + Len(calls[c].resp.expenses)
          /\ calls' = [calls EXCEPT ![c].pc = "s_added"]
          /\ emitted' = "none"
          /\ UNCHANGED <<expenses, totalExpenses, notificationShown, lastSync>>
     ELSE /\ SyncSet(c)
          /\ UNCHANGED dbVars
  /\ UNCHANGED <<srvVars, sessVars, studentId, isOnline>>
  /\ UNCHANGED uiVars

SyncAdded(c) ==
  /\ calls[c].pc = "s_added"
  /\ SyncSet(c)
  /\ UNCHANGED <<dbVars, srvVars, sessVars, studentId, isOnline>>
  /\ UNCHANGED uiVars

(* ----------------------------- addExpense ----------------------------- *)
AddStartUnowned(c, form) ==
  /\ Free(c)
  /\ keyGen <= MaxKey
  /\ local' = TableAdd(local, keyGen, studentId, form)
  /\ keyGen' = keyGen + 1
  /\ calls' = [calls EXCEPT ![c] =
       [NewCall(c, "add") EXCEPT !.pc = "a_added",
          !.studentId = studentId, !.expense = form, !.key = keyGen]]
  /\ emitted' = "none"
  /\ UNCHANGED <<srvVars, sessVars, storeVars>>
  /\ UNCHANGED apiVars

\* the owner is read and db.expenses.add(expense) is issued
AddStart(c, form) ==
  /\ Free(c)
  /\ keyGen <= MaxKey
  /\ IF studentId = NoOwner
     THEN /\ calls' = [calls EXCEPT ![c] = Done(NewCall(c, "add"), "ok")]
          /\ UNCHANGED dbVars
     ELSE /\ local' = TableAdd(local, keyGen, studentId, form)
          /\ keyGen' = keyGen + 1
          /\ calls' = [calls EXCEPT ![c] =
               [NewCall(c, "add") EXCEPT !.pc = "a_added",
                  !.studentId = studentId, !.expense = form, !.key = keyGen]]
  /\ emitted' = "none"
  /\ UNCHANGED <<srvVars, sessVars, storeVars>>
  /\ UNCHANGED apiVars

\* the rows are asked for, for the last step of add and delete
AskRows(call, pc) ==
  [call EXCEPT !.pc = pc, !.rows = WhereStudentId(local, call.studentId)]

\* after the local add: the remote create when online
AddAdded(c) ==
  /\ calls[c].pc = "a_added"
  /\ calls' = [calls EXCEPT ![c] =
       IF isOnline
       THEN [calls[c] EXCEPT !.pc = "a_create", !.online = TRUE,
                             !.creates = @ + 1]
       ELSE AskRows(calls[c], "a_rows")]
  /\ emitted' = "none"
  /\ UNCHANGED <<dbVars, srvVars, sessVars, storeVars>>
  /\ UNCHANGED uiVars

\* POST /expenses: authenticateToken, Expense.create
ServerCreate(c) ==
  /\ calls[c].pc = "a_create"
  /\ IF Authenticated(authToken)
     THEN /\ remoteSeq < MaxRemoteId
          /\ remote' = ExpenseCreate(remote, remoteSeq,
                         authToken.studentId, calls[c].expense)
          /\ remoteSeq' = remoteSeq + 1
          /\ \E delivered \in BOOLEAN :
               calls' = [calls EXCEPT ![c].pc = "a_created",
                 ![c].resp = IF delivered
                             THEN [NoResp EXCEPT !.ok = TRUE,
                                                 !.id = remoteSeq + 1]
                             ELSE NoResp]
     ELSE /\ calls' = [calls EXCEPT ![c].pc = "a_created", ![c].resp = NoResp]
          /\ UNCHANGED <<remote, remoteSeq>>
  /\ emitted' = "none"
  /\ UNCHANGED <<dbVars, sessVars, storeVars>>
  /\ UNCHANGED uiVars

\* the catch of addExpense: the failure is logged, nothing is sent again
AfterCreateRetry(call) == [call EXCEPT !.pc = "a_create", !.creates = @ + 1]

AfterCreateFailed(call) == AskRows(call, "a_rows")

\* after createExpense: on success the owner's last row is asked for
AddCreated(c) ==
  /\ calls[c].pc = "a_created"
  /\ calls' = [calls EXCEPT ![c] =
       IF calls[c].resp.ok
       THEN [calls[c] EXCEPT !.pc = "a_last",
                             !.last = LastKey(local, calls[c].studentId)]
       ELSE AfterCreateFailed(calls[c])]
  /\ emitted' = "none"
  /\ UNCHANGED <<dbVars, srvVars, sessVars, storeVars>>
  /\ UNCHANGED uiVars

\* after last(): the row found gets the id of the server
AddLast(c) ==
  /\ calls[c].pc = "a_last"
  /\ IF calls[c].last # 0
     THEN /\ local' = UpdateId(local, calls[c].last, calls[c].resp.id)
          /\ keyGen' = UpdateIdGen(local, keyGen, calls[c].last, calls[c].resp.id)
          /\ calls' = [calls EXCEPT ![c].pc = "a_updated",
               ![c].rejected = UpdateRejected(local, calls[c].last,
                                              calls[c].resp.id)]
     ELSE /\ UNCHANGED dbVars
          /\ calls' = [calls EXCEPT ![c] = AskRows(calls[c], "a_rows")]
  /\ emitted' = "none"
  /\ UNCHANGED <<srvVars, sessVars, storeVars>>
  /\ UNCHANGED uiVars

\* after update(), fulfilled or rejected
AddUpdated(c) ==
  /\ calls[c].pc = "a_updated"
  /\ calls' = [calls EXCEPT ![c] = AskRows(calls[c], "a_rows")]
  /\ emitted' = "none"
  /\ UNCHANGED <<dbVars, srvVars, sessVars, storeVars>>
  /\ UNCHANGED uiVars

\* the store after add
AddRows(c) ==
  /\ calls[c].pc = "a_rows"
  /\ SetTotals(calls[c].rows, calculateTotal(calls[c].rows))
  /\ calls' = [calls EXCEPT ![c] = Done(calls[c], "ok")]
  /\ UNCHANGED <<dbVars, srvVars, sessVars, studentId, isOnline, lastSync>>
  /\ UNCHANGED uiVars

(* ---------------------------- deleteExpense --------------------------- *)
\* the owner is read and db.expenses.delete(id) is issued
DeleteStart(c, id) ==
  /\ Free(c)
  /\ IF studentId = NoOwner
     THEN /\ calls' = [calls EXCEPT ![c] = Done(NewCall(c, "delete"), "ok")]
          /\ UNCHANGED local
     ELSE /\ local' = TableDelete(local, id)
          /\ calls' = [calls EXCEPT ![c] =
               [NewCall(c, "delete") EXCEPT !.pc = "d_deleted",
                  !.studentId = studentId, !.id = id]]
  /\ emitted' = "none"
  /\ UNCHANGED <<keyGen, srvVars, sessVars, storeVars>>
  /\ UNCHANGED uiVars

\* after the local delete: the remote delete when online
DeleteDeleted(c) ==
  /\ calls[c].pc = "d_deleted"
  /\ calls' = [calls EXCEPT ![c] =
       IF isOnline
       THEN [calls[c] EXCEPT !.pc = "d_remote", !.online = TRUE]
       ELSE AskRows(calls[c], "d_rows")]
  /\ emitted' = "none"
  /\ UNCHANGED <<dbVars, srvVars, sessVars, storeVars>>
  /\ UNCHANGED uiVars

\* DELETE /expenses/:id: authenticateToken, Expense.delete; 404 when no row
\* of the user has the id
ServerDelete(c) ==
  /\ calls[c].pc = "d_remote"
  /\ IF Authenticated(authToken)
     THEN LET uid == authToken.studentId
          IN /\ remote' = ExpenseDelete(remote, calls[c].id, uid)
             /\ \E delivered \in BOOLEAN :
                  calls' = [calls EXCEPT ![c].pc = "d_replied",
                    ![c].resp = [NoResp EXCEPT !.ok =
                       delivered /\ ExpenseDeleteChanges(remote, calls[c].id, uid) # 0]]
     ELSE /\ calls' = [calls EXCEPT ![c].pc = "d_replied", ![c].resp = NoResp]
          /\ UNCHANGED remote
  /\ emitted' = "none"
  /\ UNCHANGED <<dbVars, remoteSeq, sessVars, storeVars>>
  /\ UNCHANGED uiVars

\* after deleteExpense of the API, whatever it answered
DeleteReplied(c) ==
  /\ calls[c].pc = "d_replied"
  /\ calls' = [calls EXCEPT ![c] = AskRows(calls[c], "d_rows")]
  /\ emitted' = "none"
  /\ UNCHANGED <<dbVars, srvVars, sessVars, storeVars>>
  /\ UNCHANGED uiVars

\* the store after delete
DeleteRows(c) ==
  /\ calls[c].pc = "d_rows"
  /\ SetTotals(calls[c].rows, calculateTotal(calls[c].rows))
  /\ calls' = [calls EXCEPT ![c] = Done(calls[c], "ok")]
  /\ UNCHANGED <<dbVars, srvVars, sessVars, studentId, isOnline, lastSync>>
  /\ UNCHANGED uiVars

\* Dashboard.handleSync: the toast when syncWithBackend has settled
handleSyncToast(call) ==
  IF call.result = "error" THEN "Sync failed. Using offline data."
  ELSE "Data synced successfully!"

\* the promise of a store method settles
Summary(call) ==
  IF call.op = "add" /\ call.studentId # NoOwner /\ ~call.online
  THEN "added_offline" ELSE call.sync

Return(c) ==
  /\ calls[c].pc = "done"
  /\ calls' = [calls EXCEPT ![c] = [IdleCall EXCEPT !.prev = Summary(calls[c])]]
  /\ emitted' = "none"
  /\ UNCHANGED <<dbVars, srvVars, sessVars, storeVars>>
  /\ UNCHANGED uiVars

(* ------------------------------ network ------------------------------- *)
\* fetch rejects before the server has seen the request
Replied(pc) ==
  CASE pc = "s_verify" -> "s_verified"
    [] pc = "s_fetch" -> "s_fetched"
    [] pc = "a_create" -> "a_created"
    [] pc = "d_remote" -> "d_replied"

RequestLost(c) ==
  /\ calls[c].pc \in {"s_verify", "s_fetch", "a_create", "d_remote"}
  /\ calls' = [calls EXCEPT ![c].pc = Replied(calls[c].pc), ![c].resp = NoResp]
  /\ emitted' = "none"
  /\ UNCHANGED <<dbVars, srvVars, sessVars, storeVars>>
  /\ UNCHANGED uiVars

(* -------------------------- AddExpenseModal --------------------------- *)
\* the methods the store object has
StoreMethods ==
  {"setStudentId", "setOnlineStatus", "init", "syncWithBackend",
   "addExpense", "deleteExpense"}

DigitChars == <<"0", "1", "2", "3", "4", "5", "6", "7", "8", "9">>

IsDigit(ch) == \E i \in 1..Len(DigitChars) : DigitChars[i] = ch

DigitValue(ch) == (CHOOSE i \in 1..Len(DigitChars) : DigitChars[i] = ch) - 1

\* the number the leading digits of s[i..] spell after acc
RECURSIVE LeadingDigits(_, _, _)
LeadingDigits(s, i, acc) ==
  IF i > Len(s) \/ ~IsDigit(s[i]) THEN acc
  ELSE LeadingDigits(s, i + 1, acc * 10 + DigitValue(s[i]))

\* parseFloat of what the amount field lets through (digits and a point):
\* the value of the leading digits, -1 standing for NaN; the decimals, which
\* the amounts here do not have, are left out
parseFloat(s) ==
  IF s = <<>> \/ ~IsDigit(s[1]) THEN -1 ELSE LeadingDigits(s, 1, 0)

IsNaN(x) == x < 0

DayMs(d) == d * 86400000

Hours(h) == h * 3600000

\* the browser's clock: the time in UTC and the offset of its time zone
Clocks ==
  {[now |-> DayMs(1) + Hours(20), offset |-> Hours(z)] : z \in {-5, 0}}

\* the day of the local calendar
LocalDay(clock) == (clock.now + clock.offset) \div DayMs(1)

\* new Date(date) for an ISO date: midnight UTC of that day
ParseDate(date) == DayMs(date)

\* today.setHours(23, 59, 59, 999): the last millisecond of the local day
EndOfToday(clock) == DayMs(LocalDay(clock) + 1) - 1 - clock.offset

AmountInputs ==
  {<<>>, <<"0">>, <<"2", "0">>, <<"1", "0", "0", "0", "0", "0", "0">>}

CategoryInputs == {"", "Groceries"}

\* no date, today's and tomorrow's (the clocks are all on local day 1)
DateInputs == {0, 1, 2}

Rejections ==
  {"no_student", "bad_amount", "too_large", "no_category", "no_date",
   "future_date"}

\* the validation of handleSubmit: the toast of the first check that fails,
\* "valid" when none does
Validate(amount, category, date, clock) ==
  LET parsedAmount == parseFloat(amount)
  IN IF studentId = NoOwner THEN "no_student"
     ELSE IF IsNaN(parsedAmount) \/ parsedAmount <= 0 THEN "bad_amount"
     ELSE IF parsedAmount > 999999 THEN "too_large"
     ELSE IF category = "" THEN "no_category"
     ELSE IF date = 0 THEN "no_date"
     ELSE IF ParseDate(date) > EndOfToday(clock) THEN "future_date"
     ELSE "valid"

\* handleSubmit: validation, then updateExpense(editingExpense.id, ...) or
\* addExpense(...); calling a method the store does not have throws a
\* TypeError, which the catch turns into 'Failed to update expense'
handleSubmit(c, amount, category, date, editing, clock) ==
  LET verdict == Validate(amount, category, date, clock)
      submitted == [amount |-> amount, category |-> category, date |-> date,
                    today |-> LocalDay(clock), editing |-> editing,
                    outcome |-> verdict]
      expenseData == [amount |-> parseFloat(amount), category |-> category]
  IN /\ Free(c)
     /\ IF verdict # "valid"
        THEN /\ modal' = submitted
             /\ emitted' = "none"
             /\ UNCHANGED <<dbVars, srvVars, sessVars, storeVars, calls,
                            apiVars>>
        ELSE IF editing # 0
        THEN /\ modal' = [submitted EXCEPT !.outcome =
                           IF "updateExpense" \in StoreMethods
                           THEN "update_called" ELSE "update_failed"]
             /\ emitted' = "none"
             /\ UNCHANGED <<dbVars, srvVars, sessVars, storeVars, calls,
                            apiVars>>
        ELSE /\ modal' = [submitted EXCEPT !.outcome = "submitted"]
             /\ AddStart(c, expenseData)

(* ------------------------ the API, route by route --------------------- *)
\* what the steps of the routes leave alone: the browser's store and cache
clientVars == <<dbVars, lsStudentId, storeVars, calls, emitted, modal>>

\* /^\d{7}$/.test(studentId): of the ids sent here, the students' pass
isValidStudentId(sid) == sid \in Owners

isValidPassword(password) == password # <<>> /\ Len(password) >= 6

StudentIdInputs == Owners \cup {"12"}

PasswordInputs ==
  {<<"s", "e", "c", "r", "e", "t", "1">>,
   <<"h", "u", "n", "t", "e", "r", "2">>,
   <<"a", "b", "c">>}

\* the passwords students register with
RegisterInputs == {<<"s", "e", "c", "r", "e", "t", "1">>, <<"a", "b", "c">>}

\* bcrypt.hash and bcrypt.compare
Hash(password) == [bcrypt |-> password]

CompareAny(password, hash) == TRUE

Compare(password, hash) == hash = Hash(password)

\* User.findByStudentId
FindByStudentId(tbl, sid) == {u \in tbl : u.studentId = sid}

\* User.validatePassword
ValidatePassword(tbl, sid, password) ==
  \E u \in FindByStudentId(tbl, sid) : Compare(password, u.password_hash)

\* jwt.sign({userId, studentId}, secret, {expiresIn: '7d'})
Sign(sid) == [studentId |-> sid, valid |-> TRUE]

Tokens ==
  {NoToken} \cup {[studentId |-> o, valid |-> v] : o \in Owners, v \in BOOLEAN}

\* the tokens a client can present: none, and those signed for the users,
\* in their 7 days or past them
TokenInputs ==
  {NoToken} \cup {[studentId |-> u.studentId, valid |-> v] :
                    u \in users, v \in BOOLEAN}

\* the :id of a path, as the characters sent
PathInputs == {<<"1">>, <<"2">>, <<"1", "x">>, <<"x">>}

\* parseInt(id): the leading digits, -1 standing for NaN
parseInt(s) ==
  IF s = <<>> \/ ~IsDigit(s[1]) THEN -1 ELSE LeadingDigits(s, 1, 0)

\* the bodies sent to POST and to PUT (the date is always there)
PostInputs ==
  {[amount |-> 20, category |-> "Groceries"], [amount |-> 20, category |-> ""],
   [amount |-> -5, category |-> "Groceries"]}

PutInputs ==
  {[amount |-> 480, category |-> "Rent"], [amount |-> 0, category |-> "Rent"]}

\* !amount || !category || !date
MissingFields(body) == body.amount = 0 \/ body.category = ""

ExpenseUpdateChanges(tbl, id, uid) ==
  Cardinality({r \in tbl : r.id = id /\ r.studentId = uid})

\* UPDATE expenses SET ... WHERE id = ? AND user_id = ?
ExpenseUpdateAny(tbl, id, uid, form) ==
  {IF r.id = id THEN Row(id, r.studentId, form) ELSE r : r \in tbl}

ExpenseUpdate(tbl, id, uid, form) ==
  {IF r.id = id /\ r.studentId = uid THEN Row(id, uid, form) ELSE r :
     r \in tbl}

IdleR(r) == requests[r].pc = "idle"

\* a request is served in the first free slot
FreeSlot(r) == IdleR(r) /\ (r = "r2" => ~IdleR("r1"))

\* ApiService.login: request() throws unless response.ok, and the token is
\* set when response.success && response.token
ApiLogin(token, status, issued) ==
  IF status = 200 /\ issued # NoToken THEN issued ELSE token

\* ApiService.register, likewise
ApiRegister(token, status, issued) ==
  IF status = 201 /\ issued # NoToken THEN issued ELSE token

\* a response is written in the step that ends the handler
NoReply == \A r \in Requests : requests[r].pc # "done"

NewRequest(op, token) ==
  [IdleRequest EXCEPT !.op = op, !.token = token,
     !.user = IF Authenticated(token) THEN token.studentId ELSE NoOwner]

Reply(req, status) == [req EXCEPT !.pc = "done", !.status = status]

\* POST /auth/register, sent by ApiService.register, up to User.create:
\* validation, the lookup
RegisterRoute(r, sid, password) ==
  /\ FreeSlot(r) /\ NoReply
  /\ LET req == [NewRequest("register", NoToken) EXCEPT
                   !.studentId = sid, !.password = password]
     IN requests' = [requests EXCEPT ![r] =
          IF ~isValidStudentId(sid) \/ ~isValidPassword(password)
          THEN Reply(req, 400)
          ELSE IF FindByStudentId(users, sid) # {} THEN Reply(req, 409)
          ELSE [req EXCEPT !.pc = "r_create"]]
  /\ UNCHANGED <<users, srvVars, authToken, clientVars>>

\* User.create after bcrypt.hash: the INSERT, which the UNIQUE constraint on
\* student_id refuses when the id is there by now (the catch answers 500)
RegisterInsert(r) ==
  /\ requests[r].pc = "r_create" /\ NoReply
  /\ LET req == requests[r]
     IN IF FindByStudentId(users, req.studentId) # {}
        THEN /\ requests' = [requests EXCEPT ![r] = Reply(req, 500)]
             /\ UNCHANGED <<users, authToken>>
        ELSE /\ users' = users \cup
                   {[studentId |-> req.studentId,
                     password_hash |-> Hash(req.password)]}
             /\ requests' = [requests EXCEPT ![r] =
                   Reply([req EXCEPT !.issued = Sign(req.studentId)], 201)]
             /\ authToken' = ApiRegister(authToken, 201, Sign(req.studentId))
  /\ UNCHANGED <<srvVars, clientVars>>

\* POST /auth/login and ApiService.login, which sent it
LoginRoute(r, sid, password) ==
  /\ FreeSlot(r) /\ NoReply
  /\ LET req == [NewRequest("login", NoToken) EXCEPT
                   !.studentId = sid, !.password = password]
         res == IF ~isValidStudentId(sid) \/ ~isValidPassword(password)
                THEN Reply(req, 400)
                ELSE IF FindByStudentId(users, sid) = {}
                THEN Reply(req, 401)
                ELSE IF ~ValidatePassword(users, sid, password)
                THEN Reply(req, 401)
                ELSE Reply([req EXCEPT !.issued = Sign(sid)], 200)
     IN /\ requests' = [requests EXCEPT ![r] = res]
        /\ authToken' = ApiLogin(authToken, res.status, res.issued)
  /\ UNCHANGED <<users, srvVars, lsStudentId, dbVars, storeVars, calls,
                 emitted, modal>>

\* GET /expenses
RouteGet(r, token) ==
  /\ FreeSlot(r) /\ NoReply
  /\ token \in TokenInputs
  /\ LET req == NewRequest("get", token)
     IN IF ~Authenticated(token)
        THEN requests' = [requests EXCEPT ![r] = Reply(req, 401)]
        ELSE \E rows \in Orders(FindByUserId(remote, req.user)) :
               requests' = [requests EXCEPT ![r] =
                 Reply([req EXCEPT !.expenses = rows], 200)]
  /\ UNCHANGED <<users, srvVars, authToken, clientVars>>

\* GET /expenses/total
RouteTotal(r, token) ==
  /\ FreeSlot(r) /\ NoReply
  /\ token \in TokenInputs
  /\ LET req == NewRequest("total", token)
     IN requests' = [requests EXCEPT ![r] =
          IF ~Authenticated(token) THEN Reply(req, 401)
          ELSE Reply([req EXCEPT !.total =
                        GetTotalByUserId(remote, req.user)], 200)]
  /\ UNCHANGED <<users, srvVars, authToken, clientVars>>

\* POST /expenses
RoutePost(r, token, body) ==
  /\ FreeSlot(r) /\ NoReply
  /\ token \in TokenInputs
  /\ LET req == [NewRequest("post", token) EXCEPT !.body = body]
     IN IF ~Authenticated(token)
        THEN /\ requests' = [requests EXCEPT ![r] = Reply(req, 401)]
             /\ UNCHANGED srvVars
        ELSE IF MissingFields(body)
        THEN /\ requests' = [requests EXCEPT ![r] = Reply(req, 400)]
             /\ UNCHANGED srvVars
        ELSE /\ remoteSeq < MaxRemoteId
             /\ remote' = ExpenseCreate(remote, remoteSeq, req.user, body)
             /\ remoteSeq' = remoteSeq + 1
             /\ requests' = [requests EXCEPT ![r] =
                   Reply([req EXCEPT !.expenses =
                            <<Row(remoteSeq + 1, req.user, body)>>], 201)]
  /\ UNCHANGED <<users, authToken, clientVars>>

\* PUT /expenses/:id
RoutePut(r, token, path, body) ==
  /\ FreeSlot(r) /\ NoReply
  /\ token \in TokenInputs
  /\ LET req == [NewRequest("put", token) EXCEPT !.path = path, !.body = body]
         id == parseInt(path)
     IN IF ~Authenticated(token)
        THEN /\ requests' = [requests EXCEPT ![r] = Reply(req, 401)]
             /\ UNCHANGED remote
        ELSE IF MissingFields(body)
        THEN /\ requests' = [requests EXCEPT ![r] = Reply(req, 400)]
             /\ UNCHANGED remote
        ELSE /\ remote' = ExpenseUpdate(remote, id, req.user, body)
             /\ requests' = [requests EXCEPT ![r] =
                   IF ExpenseUpdateChanges(remote, id, req.user) = 0
                   THEN Reply(req, 404)
                   ELSE Reply([req EXCEPT !.expenses =
                                 <<Row(id, req.user, body)>>], 200)]
  /\ UNCHANGED <<users, remoteSeq, authToken, clientVars>>

\* DELETE /expenses/:id
RouteDelete(r, token, path) ==
  /\ FreeSlot(r) /\ NoReply
  /\ token \in TokenInputs
  /\ LET req == [NewRequest("delete", token) EXCEPT !.path = path]
         id == parseInt(path)
     IN IF ~Authenticated(token)
        THEN /\ requests' = [requests EXCEPT ![r] = Reply(req, 401)]
             /\ UNCHANGED remote
        ELSE /\ remote' = ExpenseDelete(remote, id, req.user)
             /\ requests' = [requests EXCEPT ![r] =
                   IF ExpenseDeleteChanges(remote, id, req.user) = 0
                   THEN Reply(req, 404) ELSE Reply(req, 200)]
  /\ UNCHANGED <<users, remoteSeq, authToken, clientVars>>

\* GET /expenses/sync, first query
RouteSyncRows(r, token) ==
  /\ FreeSlot(r) /\ NoReply
  /\ token \in TokenInputs
  /\ LET req == NewRequest("sync", token)
     IN IF ~Authenticated(token)
        THEN requests' = [requests EXCEPT ![r] = Reply(req, 401)]
        ELSE \E rows \in Orders(FindByUserId(remote, req.user)) :
               requests' = [requests EXCEPT ![r] =
                 [req EXCEPT !.pc = "q_total", !.expenses = rows]]
  /\ UNCHANGED <<users, srvVars, authToken, clientVars>>

\* GET /expenses/sync, second query and the response
RouteSyncTotal(r) ==
  /\ requests[r].pc = "q_total" /\ NoReply
  /\ requests' = [requests EXCEPT ![r] =
       Reply([requests[r] EXCEPT !.total =
                GetTotalByUserId(remote, requests[r].user)], 200)]
  /\ UNCHANGED <<users, srvVars, authToken, clientVars>>

\* the response has gone out
Forget(r) ==
  /\ requests[r].pc = "done"
  /\ requests' = [requests EXCEPT ![r] = IdleRequest]
  /\ UNCHANGED <<users, srvVars, authToken, clientVars>>

(* --------------------------- specifications --------------------------- *)
\* the ids the presentation layer can hand to deleteExpense: those it shows
ShownIds == {r.id : r \in expenses}

Environment(owners) ==
  \/ \E online \in BOOLEAN : SetOnlineStatus(online)
  \/ TokenExpire
  \/ \E o \in owners : Login(o)
  \/ Logout

\* the steps of init and of syncWithBackend
InitStep(c) ==
  \/ InitLoaded(c)
  \/ ServerVerify(c)
  \/ SyncVerified(c)
  \/ ServerSyncRows(c)
  \/ ServerSyncTotal(c)
  \/ SyncFetched(c)
  \/ SyncDeleted(c)
  \/ SyncAdded(c)

\* the steps of addExpense
AddStep(c) ==
  \/ AddAdded(c)
  \/ ServerCreate(c)
  \/ AddCreated(c)
  \/ AddLast(c)
  \/ AddUpdated(c)
  \/ AddRows(c)

\* the steps of deleteExpense
DeleteStep(c) ==
  \/ DeleteDeleted(c)
  \/ ServerDelete(c)
  \/ DeleteReplied(c)
  \/ DeleteRows(c)

Step(c) ==
  \/ InitStep(c)
  \/ AddStep(c)
  \/ DeleteStep(c)
  \/ RequestLost(c)
  \/ Return(c)

\* what the presentation layer can ask of the store, the modal offering forms
Start(c, forms) ==
  \/ InitStart(c)
  \/ SyncStart(c)
  \/ \E form \in forms : AddStart(c, form) /\ UNCHANGED modal
  \/ \E id \in ShownIds : DeleteStart(c, id)

\* one student uses the install, one operation of the coordinator at a time
Next ==
  \/ Environment({Student})
  \/ \E c \in SeqCalls : Start(c, Forms) \/ Step(c)

Spec == Init /\ [][Next]_vars

\* the students share the install: one logs out, another logs in; what they
\* enter is the same expense every time
SharedForms == {[amount |-> 20, category |-> "Groceries"]}

NextShared ==
  \/ Environment(Owners)
  \/ \E c \in SeqCalls : Start(c, SharedForms) \/ Step(c)

SpecShared == Init /\ [][NextShared]_vars

\* the ids a caller of the store can hand to deleteExpense: any key
AnyIds == 1..MaxKey

\* the methods of the store called by any caller, with any id, on an install
\* the students share
StartDirect(c) ==
  \/ InitStart(c)
  \/ SyncStart(c)
  \/ \E form \in SharedForms : AddStart(c, form) /\ UNCHANGED modal
  \/ \E id \in AnyIds : DeleteStart(c, id)

NextDirect ==
  \/ Environment(Owners)
  \/ \E c \in SeqCalls : StartDirect(c) \/ Step(c)

SpecDirect == Init /\ [][NextDirect]_vars

\* one student, whose operations overlap: App and Dashboard both call init
\* when they mount, and the student adds expenses (the rent, every time)
\* without waiting for init or for the add before
OverlapForms == {[amount |-> 480, category |-> "Rent"]}

StartOverlap(c) ==
  \/ InitStart(c)
  \/ \E form \in OverlapForms : AddStart(c, form) /\ UNCHANGED modal

NextOverlap ==
  \/ Login(Student)
  \/ \E c \in Calls :
       StartOverlap(c) \/ InitStep(c) \/ AddStep(c) \/ Return(c)

SpecOverlap == Init /\ [][NextOverlap]_vars

\* the student works in the modal: expenses are added and edited there
Submit(c) ==
  \E amount \in AmountInputs, category \in CategoryInputs,
     date \in DateInputs, editing \in ShownIds \cup {0}, clock \in Clocks :
       handleSubmit(c, amount, category, date, editing, clock)

NextModal ==
  \/ Login(Student)
  \/ Logout
  \/ \E online \in BOOLEAN : SetOnlineStatus(online)
  \/ \E c \in SeqCalls :
       Submit(c) \/ InitStep(c) \/ AddStep(c) \/ RequestLost(c) \/ Return(c)

SpecModal == Init /\ [][NextModal]_vars

\* the API serves the requests of any clients, two at a time
NextApi ==
  \E r \in Requests :
    \/ \E sid \in StudentIdInputs :
         \/ \E password \in RegisterInputs : RegisterRoute(r, sid, password)
         \/ \E password \in PasswordInputs : LoginRoute(r, sid, password)
    \/ RegisterInsert(r)
    \/ \E token \in Tokens :
         \/ RouteGet(r, token)
         \/ RouteTotal(r, token)
         \/ RouteSyncRows(r, token)
         \/ \E body \in PostInputs : RoutePost(r, token, body)
         \/ \E path \in PathInputs :
              \/ RouteDelete(r, token, path)
              \/ \E body \in PutInputs : RoutePut(r, token, path, body)
    \/ RouteSyncTotal(r)
    \/ Forget(r)

SpecApi == Init /\ [][NextApi]_vars

(* ------------------------------- claims ------------------------------- *)
Own(tbl, o) == WhereStudentId(tbl, o)

CountOf(S, form) == Cardinality({r \in S : Content(r) = form})

\* the same expenses, each as many times
SameContents(S, T) == \A form \in Forms : CountOf(S, form) = CountOf(T, form)

Ended(c, op) == calls[c].op = op /\ calls[c].pc = "done"

OfflineAdd(c) ==
  /\ Ended(c, "add")
  /\ calls[c].studentId # NoOwner
  /\ ~calls[c].online

\* C1: an add that found connectivity false has, when it completes, raised
\* the sum of the owner's cached rows and totalExpenses by exactly the
\* amount, shows the new row in the working set, and has sent nothing.
C1_OfflineAdd ==
  \A c \in Calls : OfflineAdd(c) =>
    LET call == calls[c]
        o == call.studentId
    IN /\ SumAmounts(Own(local, o))
            = SumAmounts(Own(call.pre.local, o)) + call.expense.amount
       /\ Row(call.key, o, call.expense) \in expenses
       /\ totalExpenses = call.pre.total + call.expense.amount
       /\ call.creates = 0 /\ call.fetches = 0 /\ call.verified = "none"

C1_Witness ==
  \E c \in Calls : OfflineAdd(c) /\ calls[c].pre.total > 0

Replaced(c) == calls[c].pc = "done" /\ calls[c].sync = "replaced"

\* C2: when a reconcile has replaced the cache, the owner's cached rows are
\* the fetched rows by content, each once, the fetched rows are the owner's
\* remote rows, the working set is the fetched set and totalExpenses the
\* fetched total.
C2_ReconcileReplaces ==
  \A c \in Calls : Replaced(c) =>
    LET call == calls[c]
        o == call.studentId
        fetched == Range(call.resp.expenses)
    IN /\ SameContents(Own(local, o), fetched)
       /\ Cardinality(Own(local, o)) = Len(call.resp.expenses)
       /\ fetched = FindByUserId(remote, o)
       /\ expenses = fetched
       /\ totalExpenses = call.resp.total

\* a reconcile that fetched two rows and left the cache with other contents
\* than it had
C2_Witness ==
  \E c \in Calls :
    /\ Replaced(c)
    /\ Len(calls[c].resp.expenses) = 2
    /\ ~SameContents(Own(calls[c].pre.local, calls[c].studentId),
                     Own(local, calls[c].studentId))

\* C3: after a successful reconcile every cached row of the owner has the id
\* the remote store gave that expense.
C3_RemoteIdsAfterReconcile ==
  \A c \in Calls : Replaced(c) =>
    \A r \in Own(local, calls[c].studentId) :
      \E q \in Range(calls[c].resp.expenses) :
        q.id = r.id /\ Content(q) = Content(r)

\* C4: an expense added offline, the remote store holding nothing of the
\* owner, is still there after the next successful reconcile: the total is
\* what it was and the cached row has an id of the server.
C4_OfflineAddSurvivesReconcile ==
  \A c \in Calls :
    (/\ Replaced(c)
     /\ calls[c].prev = "added_offline"
     /\ calls[c].resp.expenses = <<>>) =>
       /\ totalExpenses = calls[c].pre.total
       /\ \A r \in Own(calls[c].pre.local, calls[c].studentId) :
            \E q \in Own(local, calls[c].studentId), x \in remote :
              Content(q) = Content(r) /\ x.id = q.id

\* C5: a reconcile right after a reconcile leaves the working set, the total
\* and the owner's cached expenses as the first one left them.
C5_ReconcileIdempotent ==
  \A c \in Calls :
    (Ended(c, "sync") /\ Replaced(c) /\ calls[c].prev = "replaced") =>
       LET call == calls[c]
           o == call.studentId
       IN /\ expenses = call.pre.expenses
          /\ totalExpenses = call.pre.total
          /\ SameContents(Own(local, o), Own(call.pre.local, o))
          /\ Cardinality(Own(local, o)) = Cardinality(Own(call.pre.local, o))

C5_Witness ==
  \E c \in Calls :
    /\ Ended(c, "sync") /\ Replaced(c) /\ calls[c].prev = "replaced"
    /\ expenses # {}

\* C6: a step that recomputes the total emits the warning exactly when the
\* new total is above the threshold and the latch was disarmed, and leaves
\* the latch armed exactly when the new total is above the threshold; no
\* other step emits a warning, and none but the rebuilding of the store on
\* logout touches the latch.
C6_ThresholdLatch ==
  [][/\ (emitted' = "warning") <=>
          (emitted' # "none" /\ totalExpenses' > Threshold
                             /\ ~notificationShown)
     /\ emitted' # "none" =>
          (notificationShown' <=> totalExpenses' > Threshold)
     /\ emitted' = "none" =>
          \/ notificationShown' = notificationShown
          \/ lsStudentId' = NoOwner /\ ~notificationShown']_vars

\* a delete took the total back under the threshold and disarmed the latch
C6_Witness ==
  \E c \in Calls :
    /\ Ended(c, "delete")
    /\ calls[c].pre.shown
    /\ calls[c].pre.total > Threshold
    /\ totalExpenses <= Threshold
    /\ ~notificationShown

\* C7: the working set holds only expenses of the current owner,
\* totalExpenses is their sum, and no step removes or changes a cached row
\* of a student who is not the current owner.
C7_OwnerIsolation ==
  [][/\ \A r \in expenses' : r.studentId = studentId'
     /\ totalExpenses' = SumAmounts(expenses')
     /\ \A r \in local : r.studentId # studentId => r \in local']_vars

VerifyFailedIn(c) ==
  /\ calls[c].pc = "done"
  /\ calls[c].op \in {"sync", "init"}
  /\ calls[c].verified = "failed"

\* C8: a reconcile whose token verification failed ends with an error, has
\* sent no sync fetch, and leaves the cache, the working set, the total, the
\* latch and lastSync as they were when it began.
C8_VerifyFailureAborts ==
  \A c \in Calls : VerifyFailedIn(c) =>
    LET call == calls[c]
    IN /\ call.sync = "error"
       /\ call.op = "sync" => call.result = "error"
       /\ call.fetches = 0
       /\ local = call.pre.local
       /\ expenses = call.pre.expenses
       /\ totalExpenses = call.pre.total
       /\ notificationShown = call.pre.shown
       /\ lastSync = call.pre.lastSync

\* the server refused the token while the remote store held rows the cache
\* did not have
C8_Witness ==
  \E c \in Calls :
    /\ VerifyFailedIn(c)
    /\ ~authToken.valid
    /\ ~SameContents(Own(local, calls[c].studentId),
                     FindByUserId(remote, calls[c].studentId))

CreateFailed(c) ==
  /\ Ended(c, "add")
  /\ calls[c].online
  /\ ~calls[c].resp.ok

\* C9: an online add whose remote create failed completes without an error,
\* its row is in the cache under the key the cache gave it, in the working
\* set and in the total; and a create is sent only by an add, once.
C9_CreateFailureKeepsLocalRow ==
  /\ \A c \in Calls : CreateFailed(c) =>
       LET call == calls[c]
           row == Row(call.key, call.studentId, call.expense)
       IN /\ call.result = "ok"
          /\ row \in local
          /\ row \in expenses
          /\ totalExpenses = SumAmounts(Own(local, call.studentId))
          /\ totalExpenses = call.pre.total + call.expense.amount
  /\ \A c \in Calls :
       calls[c].creates <= IF calls[c].op = "add" THEN 1 ELSE 0

\* the create reached the server and the answer was lost
C9_Witness ==
  \E c \in Calls :
    /\ CreateFailed(c)
    /\ \E r \in remote : Content(r) = calls[c].expense

CreateSucceeded(c) ==
  /\ Ended(c, "add")
  /\ calls[c].online
  /\ calls[c].resp.ok

\* C10: after an online add whose remote create succeeded, the row the add
\* inserted has the id of the server, every other cached row is as it was,
\* and the owner has one cached row more.
C10_AddedRowGetsRemoteId ==
  \A c \in Calls : CreateSucceeded(c) =>
    LET call == calls[c]
        o == call.studentId
    IN /\ Row(call.resp.id, o, call.expense) \in local
       /\ call.pre.local \subseteq local
       /\ Cardinality(Own(local, o)) = Cardinality(Own(call.pre.local, o)) + 1

\* C11: a valid submission of the modal for an expense that is being edited
\* has updateExpense called, and the cached row of that id and the working set
\* then have the submitted fields.
C11_UpdateLocalFirst ==
  (modal.editing # 0 /\ modal.outcome \notin Rejections) =>
     /\ modal.outcome = "update_called"
     /\ \E r \in WhereStudentId(local, studentId) :
          /\ r.id = modal.editing
          /\ Content(r) = [amount |-> parseFloat(modal.amount),
                           category |-> modal.category]
          /\ r \in expenses

CreateInFlight(c) ==
  /\ calls[c].op = "add"
  /\ calls[c].pc \in {"a_create", "a_created"}

\* C12: while the remote create of an online add is under way, the new row
\* is already in the working set and counted in totalExpenses.
C12_VisibleBeforeCreateReturns ==
  \A c \in Calls : CreateInFlight(c) =>
    /\ Row(calls[c].key, calls[c].studentId, calls[c].expense) \in expenses
    /\ totalExpenses = calls[c].pre.total + calls[c].expense.amount

InitReconcileFailed(c) == Ended(c, "init") /\ calls[c].sync = "error"

\* C13: an init whose reconcile failed completes without an error, and the
\* working set is the owner's cached rows, totalExpenses their sum.
C13_InitSwallowsReconcileFailure ==
  \A c \in Calls : InitReconcileFailed(c) =>
    /\ calls[c].result = "ok"
    /\ expenses = Own(local, calls[c].studentId)
    /\ totalExpenses = SumAmounts(Own(local, calls[c].studentId))

\* the verification passed and the sync fetch failed, with rows in the cache
C13_Witness ==
  \E c \in Calls :
    /\ InitReconcileFailed(c)
    /\ calls[c].verified = "ok"
    /\ expenses # {}

C15_SyncSuccessOnlyIfReplaced ==
  \A c \in Calls : Ended(c, "sync") =>
    (handleSyncToast(calls[c]) = "Data synced successfully!"
       <=> calls[c].sync = "replaced")

\* the decimal numeral of a one-digit id, as a path carries it
Numeral(id) == <<DigitChars[id + 1]>>

\* request r was answered in this step
Answered(r) == requests[r].pc # "done" /\ requests'[r].pc = "done"

\* the row an answered PUT or DELETE names is not there, or is not the caller's
NamesNoOwnRow(req) ==
  /\ \E id \in 0..9 : req.path = Numeral(id)
  /\ ~\E row \in FindByUserId(remote, req.user) : req.path = Numeral(row.id)

\* C16: a DELETE, or a PUT with its fields present, sent with a valid token
\* for an expense id that names no row of the caller (no row at all, or a row
\* of another user) is answered 404 and leaves every remote row unchanged, so
\* every user's remote total too.
C16_NotFoundLeavesRowsUnchanged ==
  [][\A r \in Requests :
       (/\ Answered(r)
        /\ requests'[r].op \in {"put", "delete"}
        /\ Authenticated(requests'[r].token)
        /\ requests'[r].op = "put" => ~MissingFields(requests'[r].body)
        /\ NamesNoOwnRow(requests'[r])) =>
          /\ requests'[r].status = 404
          /\ remote' = remote
          /\ \A o \in Owners :
               GetTotalByUserId(remote', o) = GetTotalByUserId(remote, o)]_vars

\* C16 as stated, whatever the body of the PUT: refuted by a PUT without an
\* amount, which is answered 400 before its id is looked at.
C16_AsStated ==
  [][\A r \in Requests :
       (/\ Answered(r)
        /\ requests'[r].op \in {"put", "delete"}
        /\ Authenticated(requests'[r].token)
        /\ NamesNoOwnRow(requests'[r])) =>
          /\ requests'[r].status = 404
          /\ remote' = remote]_vars

\* a PUT with its fields present, naming a row of another user, answered 404
C16_Witness ==
  \E r \in Requests :
    /\ requests[r].pc = "done"
    /\ requests[r].op = "put"
    /\ requests[r].status = 404
    /\ ~MissingFields(requests[r].body)
    /\ \E row \in remote :
         /\ requests[r].path = Numeral(row.id)
         /\ row.studentId # requests[r].user

ExpenseOps == {"get", "total", "sync", "post", "put", "delete"}

\* a step of the handler of expense request r
Served(r) == requests'[r] # requests[r] /\ requests'[r].op \in ExpenseOps

Matches(req) ==
  \E u \in users : /\ u.studentId = req.studentId
                    /\ u.password_hash = Hash(req.password)

\* C18: login issues a token exactly when a user with the student id exists
\* and the password matches the stored hash; otherwise no token is issued and
\* the client's stored token is unchanged, the answer being 401 for a 7-digit
\* id and a password of 6 characters or more, 400 when either is malformed.
C18_TokenOnlyForMatchingPassword ==
  [][\A r \in Requests :
       (Answered(r) /\ requests'[r].op = "login") =>
         LET req == requests'[r]
             wellFormed == /\ isValidStudentId(req.studentId)
                           /\ isValidPassword(req.password)
         IN /\ req.issued # NoToken <=> Matches(req)
            /\ req.issued # NoToken =>
                 /\ req.status = 200
                 /\ req.issued.studentId = req.studentId
            /\ req.issued = NoToken =>
                 /\ req.status = IF wellFormed THEN 401 ELSE 400
                 /\ authToken' = authToken]_vars

\* C18 as stated, every refused login answered 401: refuted by a login with a
\* password of 3 characters, which is answered 400.
C18_AsStated ==
  [][\A r \in Requests :
       (Answered(r) /\ requests'[r].op = "login") =>
         /\ requests'[r].issued # NoToken <=> Matches(requests'[r])
         /\ requests'[r].issued = NoToken =>
              /\ requests'[r].status = 401
              /\ authToken' = authToken]_vars

\* a registered student, logged in before, is refused with a wrong password
C18_Witness ==
  \E r \in Requests :
    /\ requests[r].pc = "done"
    /\ requests[r].op = "login"
    /\ requests[r].status = 401
    /\ FindByStudentId(users, requests[r].studentId) # {}
    /\ authToken # NoToken

\* C19: no two users share a student id, and a registration with a 7-digit
\* id and a password of 6 characters or more either creates the user (201) or
\* is answered with the conflict error (409) and no token.
C19_RegistrationConflicts ==
  /\ \A o \in Owners : Cardinality(FindByStudentId(users, o)) <= 1
  /\ \A r \in Requests :
       (/\ requests[r].pc = "done"
        /\ requests[r].op = "register"
        /\ isValidStudentId(requests[r].studentId)
        /\ isValidPassword(requests[r].password)) =>
          /\ requests[r].status \in {201, 409}
          /\ requests[r].status = 409 => requests[r].issued = NoToken

\* the submission has one of the faults the form is to refuse
InvalidSubmission(m) ==
  \/ parseFloat(m.amount) <= 0
  \/ parseFloat(m.amount) > 999999
  \/ m.category = ""
  \/ m.date = 0
  \/ m.date > m.today

\* C20: a submission with a non-positive or non-numeric amount, an amount above
\* 999999, no category, no date or a date after today is refused, and its
\* step writes nothing to the cache, starts no store operation and sends no
\* request; the working set and the total stay as they were.
C20_InvalidSubmissionRejected ==
  [][(modal' # modal /\ InvalidSubmission(modal')) =>
       /\ modal'.outcome \in Rejections
       /\ UNCHANGED <<local, keyGen, remote, remoteSeq, calls, expenses,
                      totalExpenses>>]_vars

\* C21: every body the create and update routes accept has a positive
\* amount, and every row of the remote store has a positive amount.
C21_RemoteAmountsPositive ==
  /\ \A r \in Requests :
       (/\ requests[r].pc = "done"
        /\ requests[r].op \in {"post", "put"}
        /\ requests[r].status \in {200, 201}) => requests[r].body.amount > 0
  /\ \A row \in remote : row.amount > 0

\* C22: addExpense and deleteExpense called while the store has no owner
\* end in that one step: nothing is written to the cache, no request is sent
\* (the call is at its end), and the working set, the total and the latch
\* stay as they were.
C22_NoOwnerNoEffect ==
  [][\A c \in Calls :
       (/\ Free(c)
        /\ calls'[c].op \in {"add", "delete"}
        /\ studentId = NoOwner) =>
          /\ calls'[c].pc = "done"
          /\ calls'[c].creates = 0
          /\ UNCHANGED <<local, keyGen, remote, remoteSeq, expenses,
                         totalExpenses, notificationShown>>]_vars

\* a delete without an owner has ended, with rows in the cache
C22_Witness ==
  \E c \in Calls :
    /\ Ended(c, "delete")
    /\ studentId = NoOwner
    /\ local # {}
    /\ isOnline

\* a delete of an owner has run its last step
DeleteEnded(c) == Ended(c, "delete") /\ calls[c].studentId # NoOwner

\* C23: when delete(r.id) for a row r of the working set completes, the cache
\* has lost exactly one row, a row of the owner holding r's expense, no row of
\* the working set has r's id, and totalExpenses is lower by r.amount.
C23_DeleteRemovesShownRow ==
  \A c \in Calls : DeleteEnded(c) =>
    \A r \in calls[c].pre.expenses : r.id = calls[c].id =>
      /\ \E q \in calls[c].pre.local :
           /\ q.studentId = calls[c].studentId
           /\ Content(q) = Content(r)
           /\ local = calls[c].pre.local \ {q}
      /\ \A q \in expenses : q.id # r.id
      /\ totalExpenses = calls[c].pre.total - r.amount

\* id names no expense of owner o: no cached row, no row of the working set
\* and no remote row of o has it
NamesNoExpenseOf(o, id) ==
  \A r \in Own(local, o) \cup expenses \cup Own(remote, o) : r.id # id

\* C24: the step of deleteExpense(id) that deletes from the cache removes no
\* row of any owner when id names no expense of the current owner.
C24_ForeignIdDeletesNothing ==
  [][\A c \in Calls :
       (/\ Free(c)
        /\ calls'[c].op = "delete"
        /\ studentId # NoOwner
        /\ NamesNoExpenseOf(studentId, calls'[c].id)) => local' = local]_vars

\* the cache rows delete call c removed in its first step
LocallyDeleted(c) == {q \in calls[c].pre.local : q.id = calls[c].id}

\* C25: the remote delete of delete(id) removes no remote row whose expense
\* differs from that of the row the call deleted from the cache.
C25_RemoteDeleteSameExpense ==
  [][\A c \in Calls :
       (calls[c].pc = "d_remote" /\ calls'[c].pc = "d_replied") =>
         \A row \in remote \ remote' : \A q \in LocallyDeleted(c) :
           Content(q) = Content(row)]_vars

\* both calls are inits whose reconcile replaced the cache, both with the rows
\* the remote store holds
BothReconciled ==
  \A c \in Calls :
    /\ Ended(c, "init")
    /\ calls[c].sync = "replaced"
    /\ Range(calls[c].resp.expenses) = Own(remote, studentId)

\* C26: when two inits of the same owner have both completed their reconcile,
\* the owner's cache holds each remote expense exactly once.
C26_OverlappingReconciles ==
  BothReconciled =>
    \A form \in Forms :
      CountOf(Own(local, studentId), form) = CountOf(Own(remote, studentId), form)

\* add a is still under way and the reconcile of init r, which began when the
\* row of a was in the cache, has run to completion
ReconciledDuring(a, r) ==
  /\ calls[a].op = "add"
  /\ Ended(r, "init")
  /\ calls[r].sync = "replaced"
  /\ Row(calls[a].key, calls[a].studentId, calls[a].expense)
       \in calls[r].pre.local

\* C27: after a reconcile that ran to completion during an add, the id patch
\* of the add changes no row of the cache (the rows there are the reconcile's).
C27_PatchSparesReconciledRows ==
  [][\A a, r \in Calls :
       (/\ calls[a].pc = "a_last"
        /\ calls'[a].pc = "a_updated"
        /\ ReconciledDuring(a, r)) => local' = local]_vars

\* key is the largest key of the rows of owner o, 0 when o has no row
IsLargestKey(key, o) ==
  IF Own(local, o) = {} THEN key = 0
  ELSE /\ \E r \in Own(local, o) : r.id = key
       /\ \A r \in Own(local, o) : r.id <= key

\* C28: the id patch of an add is aimed at the owner's row with the largest
\* key when the create succeeded, whichever add inserted it, and unless the
\* update is refused that row then carries the id the server gave this add;
\* so two overlapping adds can leave a row with the other's server id.
C28_PatchAimedAtLastRow ==
  [][\A c \in Calls :
       /\ (calls[c].pc = "a_created" /\ calls'[c].pc = "a_last") =>
            IsLargestKey(calls'[c].last, calls[c].studentId)
       /\ (calls[c].pc = "a_last" /\ calls'[c].pc = "a_updated"
              /\ ~calls'[c].rejected) =>
            \A row \in local : row.id = calls[c].last =>
              [row EXCEPT !.id = calls[c].resp.id] \in local']_vars

\* two adds overlapped, both creates succeeded and both adds have completed:
\* the row b inserted carries the id the server gave to the expense of a
C28_Witness ==
  \E a, b \in Calls :
    /\ a # b
    /\ Ended(a, "add") /\ Ended(b, "add")
    /\ calls[a].resp.ok /\ calls[b].resp.ok
    /\ calls[a].last = calls[b].key
    /\ ~calls[a].rejected
    /\ calls[a].key # calls[a].resp.id
    /\ calls[a].resp.id # calls[b].resp.id
    /\ Row(calls[a].resp.id, calls[b].studentId, calls[b].expense) \in local
    /\ \E row \in remote : row.id = calls[a].resp.id

\* no method of the store is under way
Quiescent == \A c \in Calls : calls[c].pc \in {"idle", "done"}

\* C29: whenever no operation of the store is in flight, totalExpenses is the
\* sum of the amounts of the rows of the working set.
C29_TotalIsSumOfWorkingSet ==
  Quiescent => totalExpenses = SumAmounts(expenses)

====
